---- MODULE Spec2Model ----
(***************************************************************************)
(* Model of the sermon search engine: search_sermons / api_search of       *)
(* sermon.py and search_sermons_v2 / api_search_v2 of sermon_search_app.py.*)
(* Texts are strings; positions are 0-based as in the Python source.       *)
(* Scores are counted in half points (ScoreUnit halves per point) because  *)
(* search_sermons adds 0.5 per occurrence.                                 *)
(***************************************************************************)
EXTENDS Integers, Sequences, FiniteSets, TLC

VARIABLES
    SERMONS,      \* the corpus, a sequence of sermon records (fields may be missing)
    pc,           \* "idle", or "handling" while a request awaits its handler
    req,          \* the request last received: endpoint and request.args
    resp,         \* its response: status and body
    query_words,  \* the term list of the search the handler called
    scores,       \* the score that search computed for each sermon
    scanned,      \* whether the handler called the search function
    earlier       \* a remembered earlier call (<<>> when none)

vars == <<SERMONS, pc, req, resp, query_words, scores, scanned, earlier>>

(***************************************************************************)
(* Python string primitives                                                *)
(***************************************************************************)

\* s[i]
At(s, i) == SubSeq(s, i + 1, i + 1)

\* s[a:b] for 0 <= a, 0 <= b
Slice(s, a, b) == SubSeq(s, a + 1, IF b > Len(s) THEN Len(s) ELSE b)

Min(a, b) == IF a < b THEN a ELSE b

Max(a, b) == IF a > b THEN a ELSE b

\* characters str.split() and str.strip() treat as whitespace, regex \s
Whitespace == {" ", "\n", "\t", "\r"}

\* the characters of the regex class [.!?]
SentenceEnd == {".", "!", "?"}

LowerChar(c) ==
    CASE c = "A" -> "a" [] c = "B" -> "b" [] c = "C" -> "c" [] c = "D" -> "d"
      [] c = "E" -> "e" [] c = "F" -> "f" [] c = "G" -> "g" [] c = "H" -> "h"
      [] c = "I" -> "i" [] c = "J" -> "j" [] c = "K" -> "k" [] c = "L" -> "l"
      [] c = "M" -> "m" [] c = "N" -> "n" [] c = "O" -> "o" [] c = "P" -> "p"
      [] c = "Q" -> "q" [] c = "R" -> "r" [] c = "S" -> "s" [] c = "T" -> "t"
      [] c = "U" -> "u" [] c = "V" -> "v" [] c = "W" -> "w" [] c = "X" -> "x"
      [] c = "Y" -> "y" [] c = "Z" -> "z" [] OTHER -> c

RECURSIVE LowerRange(_, _, _)
\* the lower-cased s[a:b], by halves
LowerRange(s, a, b) ==
    IF b <= a THEN ""
    ELSE IF b = a + 1 THEN LowerChar(At(s, a))
    ELSE LET m == (a + b) \div 2
         IN  LowerRange(s, a, m) \o LowerRange(s, m, b)

\* str.lower()
Lower(s) == LowerRange(s, 0, Len(s))

\* least element of a non-empty set of integers
SetMin(S) == CHOOSE x \in S : \A y \in S : x <= y

\* str.find(w, i): index of the first occurrence at or after i, -1 when absent
FindFrom(s, w, i) ==
    LET hits == {p \in i..(Len(s) - Len(w)) : SubSeq(s, p + 1, p + Len(w)) = w}
    IN  IF hits = {} THEN -1 ELSE SetMin(hits)

\* str.find(w)
Find(s, w) == FindFrom(s, w, 0)

\* w in s
Contains(s, w) == Find(s, w) # -1

RECURSIVE CountFrom(_, _, _)
CountFrom(s, w, i) ==
    LET p == FindFrom(s, w, i)
    IN  IF p = -1 THEN 0 ELSE 1 + CountFrom(s, w, p + Len(w))

\* str.count(w): non-overlapping occurrences, w non-empty
Count(s, w) == CountFrom(s, w, 0)

RECURSIVE SkipWs(_, _)
SkipWs(s, i) ==
    IF i < Len(s) /\ At(s, i) \in Whitespace THEN SkipWs(s, i + 1) ELSE i

RECURSIVE SkipWord(_, _)
SkipWord(s, i) ==
    IF i < Len(s) /\ At(s, i) \notin Whitespace THEN SkipWord(s, i + 1) ELSE i

RECURSIVE SplitFrom(_, _)
SplitFrom(s, i) ==
    LET a == SkipWs(s, i)
        b == SkipWord(s, a)
    IN  IF a >= Len(s) THEN <<>> ELSE <<Slice(s, a, b)>> \o SplitFrom(s, b)

\* str.split(): the maximal runs of non-whitespace characters
Split(s) == SplitFrom(s, 0)

RECURSIVE LastNonWs(_, _)
LastNonWs(s, j) ==
    IF j > 0 /\ At(s, j - 1) \in Whitespace THEN LastNonWs(s, j - 1) ELSE j

\* str.strip()
Strip(s) ==
    LET a == SkipWs(s, 0)
        b == LastNonWs(s, Len(s))
    IN  IF a >= b THEN "" ELSE Slice(s, a, b)

\* seq[:n] for any integer n (a negative n counts from the end)
Truncate(seq, n) ==
    IF n >= 0 THEN SubSeq(seq, 1, Min(n, Len(seq)))
    ELSE SubSeq(seq, 1, Max(Len(seq) + n, 0))

\* s[:n] on a string, n >= 0
Prefix(s, n) == Slice(s, 0, n)

RECURSIVE JoinFrom(_, _, _)
JoinFrom(sep, words, i) ==
    IF i > Len(words) THEN ""
    ELSE IF i = Len(words) THEN words[i]
    ELSE words[i] \o sep \o JoinFrom(sep, words, i + 1)

\* sep.join(words)
Join(sep, words) == JoinFrom(sep, words, 1)

RECURSIVE SplitOnFrom(_, _, _)
SplitOnFrom(s, sep, i) ==
    LET p == FindFrom(s, sep, i)
    IN  IF p = -1 THEN <<Slice(s, i, Len(s))>>
        ELSE <<Slice(s, i, p)>> \o SplitOnFrom(s, sep, p + Len(sep))

\* s.split(sep) with a non-empty separator
SplitOn(s, sep) == SplitOnFrom(s, sep, 0)

\* dict.get(k, default)
Get(d, k, default) == IF k \in DOMAIN d THEN d[k] ELSE default

\* halves per score point: 0.5 is one half
ScoreUnit == 2

RECURSIVE SortFrom(_, _, _)
SortFrom(items, i, sorted) ==
    IF i > Len(items) THEN sorted
    ELSE LET r == items[i]
             k == Cardinality({j \in 1..Len(sorted) : sorted[j].score >= r.score})
         IN  SortFrom(items, i + 1,
                      SubSeq(sorted, 1, k) \o <<r>> \o SubSeq(sorted, k + 1, Len(sorted)))

RECURSIVE SortFromUnstable(_, _, _)
\* a descending sort that puts an item before the items of equal score
SortFromUnstable(items, i, sorted) ==
    IF i > Len(items) THEN sorted
    ELSE LET r == items[i]
             k == Cardinality({j \in 1..Len(sorted) : sorted[j].score > r.score})
         IN  SortFromUnstable(items, i + 1,
                      SubSeq(sorted, 1, k) \o <<r>> \o SubSeq(sorted, k + 1, Len(sorted)))

SortByScoreUnstable(items) == SortFromUnstable(items, 1, <<>>)

\* list.sort(key=lambda x: x['score'], reverse=True): stable, descending
SortByScore(items) == SortFrom(items, 1, <<>>)

(***************************************************************************)
(* sermon.py: search_sermons and find_best_excerpt                         *)
(***************************************************************************)

RECURSIVE FirstMatch(_, _, _)
\* the loop of find_best_excerpt: position of the first query word longer
\* than 3 characters that occurs in the transcript, -1 when there is none
FirstMatch(transcript_lower, words, i) ==
    IF i > Len(words) THEN -1
    ELSE LET pos == IF Len(words[i]) > 3 THEN Find(transcript_lower, words[i]) ELSE -1
         IN  IF pos # -1 THEN pos ELSE FirstMatch(transcript_lower, words, i + 1)

RECURSIVE WordStart(_, _)
\* while start > 0 and transcript[start] not in ' \n': start -= 1
WordStart(transcript, start) ==
    IF start > 0 /\ At(transcript, start) \notin {" ", "\n"}
    THEN WordStart(transcript, start - 1) ELSE start

RECURSIVE WordEnd(_, _)
\* while end < len(transcript) and transcript[end] not in ' \n': end += 1
WordEnd(transcript, end) ==
    IF end < Len(transcript) /\ At(transcript, end) \notin {" ", "\n"}
    THEN WordEnd(transcript, end + 1) ELSE end

find_best_excerpt(transcript, words, context_chars) ==
    IF transcript = "" THEN ""
    ELSE LET best_position == FirstMatch(Lower(transcript), words, 1)
         IN  IF best_position = -1 THEN Prefix(transcript, context_chars) \o "..."
             ELSE LET start == WordStart(transcript,
                                   Max(0, best_position - context_chars \div 2))
                      end == WordEnd(transcript,
                                   Min(Len(transcript), best_position + context_chars \div 2))
                      excerpt == Strip(Slice(transcript, start, end))
                  IN  (IF start > 0 THEN "..." ELSE "") \o excerpt
                          \o (IF end < Len(transcript) THEN "..." ELSE "")

RECURSIVE TitleMatches(_, _, _)
\* how many entries of the term list occur in the lower-cased title
TitleMatches(words, title_lower, i) ==
    IF i > Len(words) THEN 0
    ELSE (IF Contains(title_lower, words[i]) THEN 1 ELSE 0)
             + TitleMatches(words, title_lower, i + 1)

\* score += count * 0.5 for a word longer than 3 characters
FrequencyBonus(word, transcript_lower) ==
    IF Len(word) > 3 THEN Count(transcript_lower, word) * (ScoreUnit \div 2) ELSE 0

RECURSIVE FrequencySum(_, _, _)
FrequencySum(words, transcript_lower, i) ==
    IF i > Len(words) THEN 0
    ELSE FrequencyBonus(words[i], transcript_lower)
             + FrequencySum(words, transcript_lower, i + 1)

\* the score search_sermons computes for one sermon, in half points
Score(sermon, query) ==
    LET query_lower == Lower(query)
        words == Split(query_lower)
        transcript_lower == Lower(Get(sermon, "transcript", ""))
    IN  10 * ScoreUnit * TitleMatches(words, Lower(Get(sermon, "title", "")), 1)
          + (IF Contains(transcript_lower, query_lower) THEN 5 * ScoreUnit ELSE 0)
          + FrequencySum(words, transcript_lower, 1)

RECURSIVE ScanSermonsKeepZero(_, _, _)
\* the loop without the test that skips a sermon of score 0
ScanSermonsKeepZero(S, query, i) ==
    IF i > Len(S) THEN <<>>
    ELSE <<[title |-> Get(S[i], "title", ""),
            date |-> Get(S[i], "date", ""),
            url |-> Get(S[i], "url", ""),
            word_count |-> Get(S[i], "word_count", 0),
            excerpt |-> find_best_excerpt(Get(S[i], "transcript", ""),
                                          Split(Lower(query)), 300),
            score |-> Score(S[i], query),
            doc |-> i]>>
         \o ScanSermonsKeepZero(S, query, i + 1)

RECURSIVE ScanSermons(_, _, _)
\* the loop over SERMONS: one record per sermon whose score is not 0;
\* field doc is the position in SERMONS the record was built from
ScanSermons(S, query, i) ==
    IF i > Len(S) THEN <<>>
    ELSE LET sermon == S[i]
             score == Score(sermon, query)
         IN  (IF score = 0 THEN <<>>
              ELSE <<[title |-> Get(sermon, "title", ""),
                      date |-> Get(sermon, "date", ""),
                      url |-> Get(sermon, "url", ""),
                      word_count |-> Get(sermon, "word_count", 0),
                      excerpt |-> find_best_excerpt(Get(sermon, "transcript", ""),
                                                    Split(Lower(query)), 300),
                      score |-> score,
                      doc |-> i]>>)
             \o ScanSermons(S, query, i + 1)

search_sermons(S, query, max_results) ==
    Truncate(SortByScore(ScanSermons(S, query, 1)), max_results)

(***************************************************************************)
(* sermon_search_app.py: find_relevant_passages, search_sermons_v2,        *)
(* calculate_relevance_description, generate_summary_answer                *)
(***************************************************************************)

RECURSIVE SkipPunct(_, _)
SkipPunct(s, i) ==
    IF i < Len(s) /\ At(s, i) \in SentenceEnd THEN SkipPunct(s, i + 1) ELSE i

\* start of the first separator at or after i: a run of [.!?] followed by
\* whitespace; -1 when there is none
NextSeparator(s, i) ==
    LET seps == {p \in i..(Len(s) - 1) :
                    /\ At(s, p) \in SentenceEnd
                    /\ SkipPunct(s, p) < Len(s)
                    /\ At(s, SkipPunct(s, p)) \in Whitespace}
    IN  IF seps = {} THEN -1 ELSE SetMin(seps)

RECURSIVE SentencesFrom(_, _)
\* the pieces of s[a:]: a separator is taken with all the whitespace after it
SentencesFrom(s, a) ==
    LET p == NextSeparator(s, a)
    IN  IF p = -1 THEN <<Slice(s, a, Len(s))>>
        ELSE <<Slice(s, a, p)>> \o SentencesFrom(s, SkipWs(s, SkipPunct(s, p)))

\* re.split(r'[.!?]+\s+', transcript)
Sentences(transcript) == SentencesFrom(transcript, 0)

RECURSIVE SentenceScore(_, _, _)
\* 10 for a word of more than 4 characters that occurs, plus 5 per occurrence
SentenceScore(sentence_lower, words, i) ==
    IF i > Len(words) THEN 0
    ELSE (IF Len(words[i]) > 4 /\ Contains(sentence_lower, words[i])
          THEN 10 + Count(sentence_lower, words[i]) * 5 ELSE 0)
             + SentenceScore(sentence_lower, words, i + 1)

RECURSIVE ScoredSentences(_, _, _, _)
ScoredSentences(transcript, sentences, words, i) ==
    IF i > Len(sentences) THEN <<>>
    ELSE LET sentence == sentences[i]
             score == IF Len(sentence) < 50 THEN 0
                      ELSE SentenceScore(Lower(sentence), words, 1)
         IN  (IF score > 0
              THEN <<[text |-> Strip(sentence), score |-> score,
                      position |-> Find(transcript, sentence)]>>
              ELSE <<>>)
             \o ScoredSentences(transcript, sentences, words, i + 1)

\* the passage cut around one scored sentence
Passage(transcript, item) ==
    LET pos == item.position
        start == Max(0, pos - 200)
        end == Min(Len(transcript), pos + Len(item.text) + 200)
        passage == Strip(Slice(transcript, start, end))
    IN  (IF start > 0 THEN "..." ELSE "") \o passage
            \o (IF end < Len(transcript) THEN "..." ELSE "")

find_relevant_passages(transcript, words, max_passages) ==
    LET scored_sentences ==
            SortByScore(ScoredSentences(transcript, Sentences(transcript), words, 1))
        top == Truncate(scored_sentences, max_passages)
    IN  [n \in 1..Len(top) |-> Passage(transcript, top[n])]

RECURSIVE LongerThan(_, _, _)
\* [w for w in words if len(w) > n]
LongerThan(words, n, i) ==
    IF i > Len(words) THEN <<>>
    ELSE (IF Len(words[i]) > n THEN <<words[i]>> ELSE <<>>) \o LongerThan(words, n, i + 1)

\* a term list whose fallback keeps the threshold of the primary filter
QueryWordsV2SameThreshold(query) ==
    LET tokens == Split(Lower(query))
        meaningful == LongerThan(tokens, 4, 1)
    IN  IF meaningful = <<>> THEN LongerThan(tokens, 4, 1) ELSE meaningful

\* the term list of search_sermons_v2
QueryWordsV2(query) ==
    LET tokens == Split(Lower(query))
        meaningful == LongerThan(tokens, 4, 1)
    IN  IF meaningful = <<>> THEN LongerThan(tokens, 3, 1) ELSE meaningful

\* score += min(count * 2, 20) when the word occurs
FrequencyBonusV2(word, transcript_lower) ==
    LET count == Count(transcript_lower, word)
    IN  IF count > 0 THEN Min(count * 2, 20) * ScoreUnit ELSE 0

RECURSIVE FrequencySumV2(_, _, _)
FrequencySumV2(words, transcript_lower, i) ==
    IF i > Len(words) THEN 0
    ELSE FrequencyBonusV2(words[i], transcript_lower)
             + FrequencySumV2(words, transcript_lower, i + 1)

\* the score search_sermons_v2 computes for one sermon, in half points
ScoreV2(sermon, query) ==
    LET words == QueryWordsV2(query)
        transcript_lower == Lower(Get(sermon, "transcript", ""))
    IN  30 * ScoreUnit * TitleMatches(words, Lower(Get(sermon, "title", "")), 1)
          + (IF Len(words) > 1
                  /\ Contains(transcript_lower, Join(" ", SubSeq(words, 1, 2)))
             THEN 20 * ScoreUnit ELSE 0)
          + FrequencySumV2(words, transcript_lower, 1)

calculate_relevance_description(query, passage) ==
    LET query_lower == Lower(query)
    IN  IF Contains(query_lower, "teach") \/ Contains(query_lower, "what does")
        THEN "Pastor Bob teaches about this topic"
        ELSE IF Contains(query_lower, "how") THEN "Pastor Bob explains how this applies"
        ELSE IF Contains(query_lower, "why") THEN "Pastor Bob discusses the reasons"
        ELSE IF Contains(query_lower, "bible say") \/ Contains(query_lower, "scripture")
        THEN "Pastor Bob references biblical teaching"
        ELSE "Pastor Bob discusses this topic"

RECURSIVE ScanSermonsV2(_, _, _)
\* the loop over SERMONS: one record per sermon whose score is not 0 and
\* that has a passage; field doc is the position in SERMONS
ScanSermonsV2(S, query, i) ==
    IF i > Len(S) THEN <<>>
    ELSE LET sermon == S[i]
             score == ScoreV2(sermon, query)
             passages == find_relevant_passages(Get(sermon, "transcript", ""),
                                                QueryWordsV2(query), 2)
         IN  (IF score = 0 \/ passages = <<>> THEN <<>>
              ELSE <<[title |-> Get(sermon, "title", ""),
                      date |-> Get(sermon, "date", ""),
                      url |-> Get(sermon, "url", ""),
                      word_count |-> Get(sermon, "word_count", 0),
                      passages |-> passages,
                      score |-> score,
                      relevance |-> calculate_relevance_description(Lower(query),
                                                                    passages[1]),
                      doc |-> i]>>)
             \o ScanSermonsV2(S, query, i + 1)

search_sermons_v2(S, query, max_results) ==
    Truncate(SortByScore(ScanSermonsV2(S, query, 1)), max_results)

\* the quote generate_summary_answer takes from one passage
KeyQuote(passage) ==
    LET sentences == SplitOn(passage, ". ")
        excerpt == Join(". ", Truncate(sentences, 2)) \o "."
    IN  IF Len(excerpt) > 200 THEN Prefix(excerpt, 200) \o "..." ELSE excerpt

RECURSIVE KeyQuotes(_, _)
KeyQuotes(top_results, i) ==
    IF i > Len(top_results) THEN <<>>
    ELSE (IF top_results[i].passages # <<>>
          THEN <<[text |-> KeyQuote(top_results[i].passages[1]),
                  title |-> top_results[i].title]>>
          ELSE <<>>)
         \o KeyQuotes(top_results, i + 1)

\* None is <<>>, a summary is a one-element sequence
generate_summary_answer(query, results) ==
    IF results = <<>> THEN <<>>
    ELSE <<[sermon_count |-> Len(results),
            top_teachings |-> KeyQuotes(Truncate(results, 5), 1)]>>

(***************************************************************************)
(* The HTTP handlers                                                       *)
(***************************************************************************)

DigitValue(c) ==
    CASE c = "0" -> 0 [] c = "1" -> 1 [] c = "2" -> 2 [] c = "3" -> 3 [] c = "4" -> 4
      [] c = "5" -> 5 [] c = "6" -> 6 [] c = "7" -> 7 [] c = "8" -> 8 [] c = "9" -> 9
      [] OTHER -> -1

RECURSIVE DigitsValue(_, _, _)
\* value of the digit string s from position i with accumulator acc, -1 when
\* a character is not a digit
DigitsValue(s, i, acc) ==
    IF i >= Len(s) THEN acc
    ELSE IF DigitValue(At(s, i)) = -1 THEN -1
    ELSE DigitsValue(s, i + 1, acc * 10 + DigitValue(At(s, i)))

\* int(text): <<n>> for an optionally signed decimal numeral with
\* surrounding whitespace, <<>> when int raises ValueError
PyInt(text) ==
    LET t == Strip(text)
        signed == t # "" /\ At(t, 0) \in {"-", "+"}
        digits == IF signed THEN Slice(t, 1, Len(t)) ELSE t
        n == IF digits = "" THEN -1 ELSE DigitsValue(digits, 0, 0)
    IN  IF n = -1 THEN <<>>
        ELSE IF signed /\ At(t, 0) = "-" THEN <<0 - n>> ELSE <<n>>

\* int(request.args.get('max', 10))
MaxResults(args) == IF "max" \in DOMAIN args THEN PyInt(args["max"]) ELSE <<10>>

\* the response of an unhandled exception
ServerError == [status |-> 500, body |-> [exception |-> "ValueError"]]

BadRequest == [status |-> 400, body |-> [error |-> "No query provided"]]

\* a field that .get() finds in the document with the value None (a JSON
\* null): the default of .get() is not used for it
PyNone == "<None>"

\* title.lower() and transcript.lower() raise AttributeError on None; the
\* loop of either search reaches them for every sermon, whatever the query
SearchRaises(S) ==
    \E i \in 1..Len(S) :
        Get(S[i], "title", "") = PyNone \/ Get(S[i], "transcript", "") = PyNone

\* the response to a request whose search raised AttributeError
AttributeFault == [status |-> 500, body |-> [exception |-> "AttributeError"]]

\* None in the place of a number: a word count that is a JSON null (the
\* counts of the corpus are lengths, never negative)
PyNoneCount == -1

\* sum() over the word counts raises TypeError when one of them is None
StatsRaises(S) == \E i \in 1..Len(S) : Get(S[i], "word_count", 0) = PyNoneCount

\* the response to a request whose statistics raised TypeError
TypeFault == [status |-> 500, body |-> [exception |-> "TypeError"]]

\* a handler that fails when no sermon is loaded
api_search_nonempty(S, args) ==
    LET query == Get(args, "q", "")
        max_results == MaxResults(args)
    IN  IF max_results = <<>> \/ S = <<>> THEN ServerError
        ELSE IF query = "" THEN BadRequest
        ELSE LET results == search_sermons(S, query, max_results[1])
             IN  [status |-> 200,
                  body |-> [query |-> query,
                            total_sermons |-> Len(S),
                            results_count |-> Len(results),
                            results |-> results]]

\* api_search of sermon.py: the response for the request arguments
api_search(S, args) ==
    LET query == Get(args, "q", "")
        max_results == MaxResults(args)
    IN  IF max_results = <<>> THEN ServerError
        ELSE IF query = "" THEN BadRequest
        ELSE IF SearchRaises(S) THEN AttributeFault
        ELSE LET results == search_sermons(S, query, max_results[1])
             IN  [status |-> 200,
                  body |-> [query |-> query,
                            total_sermons |-> Len(S),
                            results_count |-> Len(results),
                            results |-> results]]

\* api_search_v2 of sermon_search_app.py
api_search_v2(S, args) ==
    LET query == Get(args, "q", "")
        max_results == MaxResults(args)
    IN  IF max_results = <<>> THEN ServerError
        ELSE IF query = "" THEN BadRequest
        ELSE IF SearchRaises(S) THEN AttributeFault
        ELSE LET results == search_sermons_v2(S, query, max_results[1])
             IN  [status |-> 200,
                  body |-> [query |-> query,
                            total_sermons |-> Len(S),
                            results_count |-> Len(results),
                            summary |-> generate_summary_answer(query, results),
                            results |-> results]]

\* whether the handler reaches its call of the search function
SearchCalled(args) == MaxResults(args) # <<>> /\ Get(args, "q", "") # ""

RECURSIVE TotalWords(_, _)
\* sum(s.get('word_count', 0) for s in SERMONS)
TotalWords(S, i) ==
    IF i > Len(S) THEN 0 ELSE Get(S[i], "word_count", 0) + TotalWords(S, i + 1)

CharOrd(c) ==
    CASE c = "-" -> 45 [] c = "0" -> 48 [] c = "1" -> 49 [] c = "2" -> 50
      [] c = "3" -> 51 [] c = "4" -> 52 [] c = "5" -> 53 [] c = "6" -> 54
      [] c = "7" -> 55 [] c = "8" -> 56 [] c = "9" -> 57 [] OTHER -> 127

RECURSIVE StrLeqFrom(_, _, _)
StrLeqFrom(a, b, i) ==
    IF i >= Len(a) THEN TRUE
    ELSE IF i >= Len(b) THEN FALSE
    ELSE IF CharOrd(At(a, i)) # CharOrd(At(b, i)) THEN CharOrd(At(a, i)) < CharOrd(At(b, i))
    ELSE StrLeqFrom(a, b, i + 1)

\* a <= b on strings
StrLeq(a, b) == StrLeqFrom(a, b, 0)

\* the dates api_stats collects: s.get('date') of the sermons that have one
Dates(S) == {Get(S[i], "date", "") : i \in 1..Len(S)} \ {"", PyNone}

\* dates[0] and dates[-1] after dates.sort(), None (<<>>) without dates
Oldest(S) == IF Dates(S) = {} THEN <<>>
             ELSE <<CHOOSE d \in Dates(S) : \A e \in Dates(S) : StrLeq(d, e)>>

Newest(S) == IF Dates(S) = {} THEN <<>>
             ELSE <<CHOOSE d \in Dates(S) : \A e \in Dates(S) : StrLeq(e, d)>>

\* api_stats of sermon.py
api_stats(S) ==
    IF StatsRaises(S) THEN TypeFault ELSE
    [status |-> 200,
     body |-> [total_sermons |-> Len(S),
               total_words |-> TotalWords(S, 1),
               oldest_sermon |-> Oldest(S),
               newest_sermon |-> Newest(S),
               average_words_per_sermon |->
                   IF S # <<>> THEN TotalWords(S, 1) \div Len(S) ELSE 0]]

\* api_stats of sermon_search_app.py
api_stats_v2(S) ==
    IF StatsRaises(S) THEN TypeFault ELSE
    [status |-> 200,
     body |-> [total_sermons |-> Len(S),
               total_words |-> TotalWords(S, 1),
               oldest_sermon |-> Oldest(S),
               newest_sermon |-> Newest(S)]]

(***************************************************************************)
(* Inputs: documents, queries and request arguments                        *)
(***************************************************************************)

\* longest corpus
MaxDocs == 2

RECURSIVE Rep(_, _)
\* s repeated n times
Rep(s, n) == IF n <= 0 THEN "" ELSE s \o Rep(s, n - 1)

\* the example document of the specification
GraceDoc ==
    [title |-> "Grace", transcript |-> "grace grace grace is a gift of grace",
     date |-> "2020-01-05", url |-> "https://youtu.be/a", word_count |-> 8]

\* 526 characters: the sentence about grace starts at position 222
LongDoc ==
    [title |-> "The Gift",
     transcript |-> Rep("blessed ", 26) \o "are the meek. "
                      \o "The grace of the Lord is a gift given freely to every believer. "
                      \o Rep("rejoice ", 30),
     date |-> "2019-12-25", url |-> "https://youtu.be/b", word_count |-> 72]

\* 320 characters without any query word; only the title matches
PrayerDoc ==
    [title |-> "Prayer", transcript |-> Rep("blessed ", 40),
     date |-> "2021-03-14", word_count |-> 40]

\* a document with an empty transcript
EmptyDoc == [title |-> "Amazing Grace", transcript |-> "", word_count |-> 0]

\* a document with only a title: every other field is missing
BareDoc == [title |-> "Grace Alone"]

DocPool == {GraceDoc, LongDoc, PrayerDoc, EmptyDoc, BareDoc}

\* all sequences over pool of length at most n
SeqsUpTo(pool, n) == UNION {[1..k -> pool] : k \in 0..n}

QueryPool == {"grace", "prayer", "of", "What is a Gift"}

\* values of the q parameter; the empty string stands with the queries
QPool == QueryPool \cup {""}

\* values of the max parameter
MaxPool == {"1", "0", "-1", "x"}

\* request.args: q and max each present or absent
ArgsOver(qs, ms) ==
    {<<>>} \cup {[q |-> q] : q \in qs} \cup {[max |-> m] : m \in ms}
        \cup {[q |-> q, max |-> m] : q \in qs, m \in ms}

Endpoints == {"search", "search_v2", "stats", "stats_v2"}

NoRequest == [endpoint |-> "none", args |-> <<>>]

NoResponse == [status |-> 0, body |-> <<>>]

(***************************************************************************)
(* The server: one request is received and handled at a time               *)
(***************************************************************************)

\* no request has arrived yet
Fresh ==
    /\ pc = "idle"
    /\ req = NoRequest
    /\ resp = NoResponse
    /\ query_words = <<>>
    /\ scores = <<>>
    /\ scanned = FALSE
    /\ earlier = <<>>

\* the corpus is loaded once, before the first request
Init == SERMONS \in SeqsUpTo(DocPool, MaxDocs) /\ Fresh

\* the request arguments an endpoint is called with
ArgsFor(e, qs, ms) == IF e \in {"stats", "stats_v2"} THEN {<<>>} ELSE ArgsOver(qs, ms)

\* a request arrives and is routed to its handler; it has no response yet
\* and its handler's locals are not set
Receive ==
    /\ pc = "idle"
    /\ \E e \in Endpoints : \E a \in ArgsFor(e, QPool, MaxPool) :
           req' = [endpoint |-> e, args |-> a]
    /\ pc' = "handling"
    /\ resp' = NoResponse
    /\ query_words' = <<>>
    /\ scores' = <<>>
    /\ scanned' = FALSE
    /\ UNCHANGED <<SERMONS, earlier>>

\* a handler whose search reorders the shared corpus in place
SearchStepReordering ==
    /\ pc = "handling"
    /\ req.endpoint = "search"
    /\ resp' = api_search(SERMONS, req.args)
    /\ scanned' = SearchCalled(req.args)
    /\ query_words' = IF SearchCalled(req.args) THEN Split(Lower(req.args.q)) ELSE <<>>
    /\ scores' = IF SearchCalled(req.args)
                 THEN [i \in 1..Len(SERMONS) |-> Score(SERMONS[i], req.args.q)]
                 ELSE <<>>
    /\ pc' = "idle"
    /\ SERMONS' = [i \in 1..Len(SERMONS) |-> SERMONS[Len(SERMONS) + 1 - i]]
    /\ UNCHANGED req

\* GET /api/search; query_words, scores and scanned are the locals of the
\* search_sermons call the handler makes, if it makes one; scores is left
\* empty by a call that raises
SearchStep ==
    /\ pc = "handling"
    /\ req.endpoint = "search"
    /\ resp' = api_search(SERMONS, req.args)
    /\ scanned' = SearchCalled(req.args)
    /\ query_words' = IF SearchCalled(req.args) THEN Split(Lower(req.args.q)) ELSE <<>>
    /\ scores' = IF SearchCalled(req.args) /\ ~SearchRaises(SERMONS)
                 THEN [i \in 1..Len(SERMONS) |-> Score(SERMONS[i], req.args.q)]
                 ELSE <<>>
    /\ pc' = "idle"
    /\ UNCHANGED <<SERMONS, req>>

\* GET /api/search/v2
SearchV2Step ==
    /\ pc = "handling"
    /\ req.endpoint = "search_v2"
    /\ resp' = api_search_v2(SERMONS, req.args)
    /\ scanned' = SearchCalled(req.args)
    /\ query_words' = IF SearchCalled(req.args) THEN QueryWordsV2(req.args.q) ELSE <<>>
    /\ scores' = IF SearchCalled(req.args) /\ ~SearchRaises(SERMONS)
                 THEN [i \in 1..Len(SERMONS) |-> ScoreV2(SERMONS[i], req.args.q)]
                 ELSE <<>>
    /\ pc' = "idle"
    /\ UNCHANGED <<SERMONS, req>>

ApiSearch == SearchStep /\ UNCHANGED earlier

ApiSearchV2 == SearchV2Step /\ UNCHANGED earlier

\* GET /api/stats of sermon.py
ApiStats ==
    /\ pc = "handling"
    /\ req.endpoint = "stats"
    /\ resp' = api_stats(SERMONS)
    /\ pc' = "idle"
    /\ scanned' = FALSE
    /\ query_words' = <<>>
    /\ scores' = <<>>
    /\ UNCHANGED <<SERMONS, req, earlier>>

\* GET /api/stats of sermon_search_app.py
ApiStatsV2 ==
    /\ pc = "handling"
    /\ req.endpoint = "stats_v2"
    /\ resp' = api_stats_v2(SERMONS)
    /\ pc' = "idle"
    /\ scanned' = FALSE
    /\ query_words' = <<>>
    /\ scores' = <<>>
    /\ UNCHANGED <<SERMONS, req, earlier>>

Next == Receive \/ ApiSearch \/ ApiSearchV2 \/ ApiStats \/ ApiStatsV2

Spec == Init /\ [][Next]_vars

(***************************************************************************)
(* Properties of the results                                               *)
(***************************************************************************)

\* a search request has been answered with a result list
Searched == pc = "idle" /\ req.endpoint \in {"search", "search_v2"} /\ resp.status = 200

\* C1: every record of a returned result list has a score above 0, the score
\* computed for its sermon; a sermon whose score is 0 is in no record
C1_PositiveScores ==
    Searched =>
        /\ \A n \in 1..Len(resp.body.results) :
              /\ resp.body.results[n].score > 0
              /\ resp.body.results[n].score = scores[resp.body.results[n].doc]
        /\ \A i \in 1..Len(SERMONS) :
              scores[i] = 0 => \A n \in 1..Len(resp.body.results) :
                                  resp.body.results[n].doc # i

\* a search returned a record while another sermon of the corpus scored 0
C1_Witness ==
    /\ Searched
    /\ resp.body.results # <<>>
    /\ \E i \in 1..Len(SERMONS) : scores[i] = 0

\* C2: the returned list is ordered by score, highest first, and records of
\* equal score are in corpus order
C2_StableRanking ==
    Searched =>
        \A m, n \in 1..Len(resp.body.results) :
            m < n => \/ resp.body.results[m].score > resp.body.results[n].score
                     \/ /\ resp.body.results[m].score = resp.body.results[n].score
                        /\ resp.body.results[m].doc < resp.body.results[n].doc

\* a search returned two records of equal score
C2_Witness ==
    /\ Searched
    /\ Len(resp.body.results) >= 2
    /\ resp.body.results[1].score = resp.body.results[2].score

\* the value of the max parameter the handler passed to the search
Requested == MaxResults(req.args)[1]

\* the ranked survivors of the answered search, before truncation
Ranked ==
    IF req.endpoint = "search" THEN SortByScore(ScanSermons(SERMONS, req.args.q, 1))
    ELSE SortByScore(ScanSermonsV2(SERMONS, req.args.q, 1))

\* C3: for every accepted max, 0 and negative values included, the returned
\* list is the first max(0, max) ranked survivors (all of them when fewer)
C3_TruncatedToRequest ==
    Searched =>
        /\ Len(resp.body.results) <= Max(0, Requested)
        /\ resp.body.results = SubSeq(Ranked, 1, Min(Max(0, Requested), Len(Ranked)))

\* C4: a request without a query, whatever its other parameters, is
\* answered 400 with the error record and the search is not called
C4_EmptyQueryRejected ==
    (/\ pc = "idle"
     /\ req.endpoint \in {"search", "search_v2"}
     /\ Get(req.args, "q", "") = "")
        => resp = BadRequest /\ ~scanned

\* C5: with an empty corpus, a search for a non-empty query (max absent or
\* an integer) is answered 200 with no results and both counts 0
C5_EmptyCorpus ==
    (/\ pc = "idle"
     /\ req.endpoint \in {"search", "search_v2"}
     /\ SERMONS = <<>>
     /\ Get(req.args, "q", "") # ""
     /\ MaxResults(req.args) # <<>>)
        => /\ resp.status = 200
           /\ resp.body.results = <<>>
           /\ resp.body.results_count = 0
           /\ resp.body.total_sermons = 0

\* a search of the empty corpus has been answered
C5_Witness ==
    /\ Searched
    /\ SERMONS = <<>>
    /\ req.args.q = "prayer"

\* the raw query's whitespace-separated tokens
RawTokens == Split(req.args.q)

LongToken(t) == Len(t) > 3

\* C6: in search_sermons_v2, when no token has 5 or more characters, the
\* term list is the lower-cased tokens of more than 3 characters, in order,
\* and is not empty when the raw query has such a token
C6_Fallback ==
    (/\ Searched
     /\ req.endpoint = "search_v2"
     /\ \A n \in 1..Len(RawTokens) : Len(RawTokens[n]) < 5)
        => /\ query_words = [n \in 1..Len(SelectSeq(RawTokens, LongToken)) |->
                                 Lower(SelectSeq(RawTokens, LongToken)[n])]
           /\ (\E n \in 1..Len(RawTokens) : Len(RawTokens[n]) > 3) => query_words # <<>>

\* a v2 search whose terms all come from the fallback rule
C6_Witness ==
    /\ Searched
    /\ req.endpoint = "search_v2"
    /\ \A n \in 1..Len(RawTokens) : Len(RawTokens[n]) < 5
    /\ Len(query_words) = 2

\* an excerpt without the ellipsis markers it may carry
Cores(e) ==
    {e} \cup (IF Len(e) >= 3 /\ SubSeq(e, 1, 3) = "..." THEN {SubSeq(e, 4, Len(e))} ELSE {})
        \cup (IF Len(e) >= 3 /\ SubSeq(e, Len(e) - 2, Len(e)) = "..."
              THEN {SubSeq(e, 1, Len(e) - 3)} ELSE {})
        \cup (IF Len(e) >= 6 /\ SubSeq(e, 1, 3) = "..." /\ SubSeq(e, Len(e) - 2, Len(e)) = "..."
              THEN {SubSeq(e, 4, Len(e) - 3)} ELSE {})

\* text c lies in transcript t between whitespace or the ends of t
OnWordBoundaries(t, c) ==
    \E p \in 0..(Len(t) - Len(c)) :
        /\ SubSeq(t, p + 1, p + Len(c)) = c
        /\ p = 0 \/ At(t, p - 1) \in Whitespace
        /\ p + Len(c) = Len(t) \/ At(t, p + Len(c)) \in Whitespace

\* the excerpts or passages of a result record
Texts(r) == IF "excerpt" \in DOMAIN r THEN {r.excerpt}
            ELSE {r.passages[n] : n \in 1..Len(r.passages)}

\* C8: every excerpt and passage of a result, its ellipsis markers removed,
\* is cut from the transcript on word boundaries
C8_WordBoundaries ==
    Searched =>
        \A n \in 1..Len(resp.body.results) :
            \A e \in Texts(resp.body.results[n]) :
                \E c \in Cores(e) :
                    OnWordBoundaries(Get(SERMONS[resp.body.results[n].doc], "transcript", ""), c)

\* C9: a sermon whose transcript is empty or missing scores 0 and is in no
\* returned record
C9_EmptyTranscriptScoresZero ==
    Searched =>
        \A i \in 1..Len(SERMONS) :
            Get(SERMONS[i], "transcript", "") = ""
                => /\ scores[i] = 0
                   /\ \A n \in 1..Len(resp.body.results) : resp.body.results[n].doc # i

(***************************************************************************)
(* Repeated calls: a call of the search endpoints may be remembered in     *)
(* earlier, with the number of calls handled since (counted up to          *)
(* MaxBetween)                                                             *)
(***************************************************************************)

\* the count of later calls stops here
MaxBetween == 2

RepeatDocs == {LongDoc, EmptyDoc, BareDoc}

RepeatQueries == {"grace", "prayer"}

RepeatMax == {"1"}

InitRepeat == SERMONS \in SeqsUpTo(RepeatDocs, MaxDocs) /\ Fresh

ReceiveRepeat ==
    /\ pc = "idle"
    /\ \E e \in Endpoints : \E a \in ArgsFor(e, RepeatQueries, RepeatMax) :
           req' = [endpoint |-> e, args |-> a]
    /\ pc' = "handling"
    /\ resp' = NoResponse
    /\ query_words' = <<>>
    /\ scores' = <<>>
    /\ scanned' = FALSE
    /\ UNCHANGED <<SERMONS, earlier>>

\* the remembered call once one more call has been handled
Aged ==
    IF earlier = <<>> THEN <<>>
    ELSE <<[earlier[1] EXCEPT !.later = Min(@ + 1, MaxBetween)]>>

\* the call just handled is remembered if it is a search that answered, or
\* the call remembered before is kept
Remember(call) ==
    earlier' \in {Aged} \cup (IF call.resp.status = 200
                              THEN {<<[req |-> call.req, resp |-> call.resp, later |-> 0]>>}
                              ELSE {})

RepeatSearch == SearchStep /\ Remember([req |-> req, resp |-> resp'])

RepeatSearchV2 == SearchV2Step /\ Remember([req |-> req, resp |-> resp'])

RepeatStats ==
    /\ pc = "handling"
    /\ req.endpoint \in {"stats", "stats_v2"}
    /\ resp' = IF req.endpoint = "stats" THEN api_stats(SERMONS) ELSE api_stats_v2(SERMONS)
    /\ pc' = "idle"
    /\ scanned' = FALSE
    /\ query_words' = <<>>
    /\ scores' = <<>>
    /\ earlier' = Aged
    /\ UNCHANGED <<SERMONS, req>>

NextRepeat == ReceiveRepeat \/ RepeatSearch \/ RepeatSearchV2 \/ RepeatStats

SpecRepeat == InitRepeat /\ [][NextRepeat]_vars

\* C10: a search request equal to a remembered earlier one (same endpoint,
\* same query, same max), whatever calls were handled in between, gets the
\* response the earlier one got
C10_Deterministic ==
    (pc = "idle" /\ earlier # <<>> /\ req = earlier[1].req)
        => resp = earlier[1].resp

\* a search that returned records is repeated after other calls
C10_Witness ==
    /\ pc = "idle"
    /\ earlier # <<>>
    /\ earlier[1].later = MaxBetween
    /\ req = earlier[1].req
    /\ resp.status = 200
    /\ resp.body.results # <<>>

(***************************************************************************)
(* Scoring under growing term frequency: a one-sermon corpus is searched,  *)
(* then reloaded with one more occurrence of the query's term appended to  *)
(* the transcript and searched again with the same request                 *)
(***************************************************************************)

\* most occurrences of the term a transcript is grown to
MaxOccurrences == 42

ScoreDocs == {GraceDoc, LongDoc, PrayerDoc}

ScoreQueries == {"grace", "Blessed", "gift"}

InitScore ==
    /\ SERMONS \in {<<d>> : d \in ScoreDocs}
    /\ pc = "handling"
    /\ req \in {[endpoint |-> e, args |-> [q |-> q]] :
                    e \in {"search", "search_v2"}, q \in ScoreQueries}
    /\ resp = NoResponse
    /\ query_words = <<>>
    /\ scores = <<>>
    /\ scanned = FALSE
    /\ earlier = <<>>

AppendOccurrence ==
    /\ pc = "idle"
    /\ query_words # <<>>
    /\ Count(Lower(SERMONS[1].transcript), query_words[1]) < MaxOccurrences
    /\ SERMONS' = <<[SERMONS[1] EXCEPT !.transcript = @ \o " " \o query_words[1]]>>
    /\ pc' = "handling"
    /\ UNCHANGED <<req, resp, query_words, scores, scanned, earlier>>

NextScore == AppendOccurrence \/ ApiSearch \/ ApiSearchV2

SpecScore == InitScore /\ [][NextScore]_vars

\* the cap of one term's frequency bonus, in points
PerTermCap == 20

\* what the frequency of term w in a transcript adds to the score the
\* search of endpoint e computes, in half points
FrequencyShare(e, w, transcript) ==
    IF e = "search" THEN FrequencyBonus(w, Lower(transcript))
    ELSE FrequencyBonusV2(w, Lower(transcript))

\* C7: in both searches, one more occurrence of the term in the transcript
\* never lowers the sermon's score, and no term's frequency adds more than
\* the per-term cap
C7_MonotoneAndCapped ==
    [][pc = "handling" =>
          /\ scores # <<>> => scores'[1] >= scores[1]
          /\ \A n \in 1..Len(query_words') :
                FrequencyShare(req.endpoint, query_words'[n], SERMONS[1].transcript)
                    <= PerTermCap * ScoreUnit]_vars

(***************************************************************************)
(* Concurrent requests: every thread of Threads serves one request at a    *)
(* time.  Here pc, req, resp, query_words, scores and scanned hold one     *)
(* value per thread.  A search handler runs in steps: it reads its         *)
(* arguments, then its loop visits one sermon per step, then it sorts,     *)
(* truncates and answers.  While the loop runs, resp[t] has status 0 and   *)
(* holds the records appended so far; Len(scores[t]) is the loop position. *)
(***************************************************************************)

Threads == {"t1", "t2"}

ConcurrentDocs == {GraceDoc, LongDoc, BareDoc}

ConcurrentQueries == {"grace"}

ConcurrentMax == {"1"}

InitConcurrent ==
    /\ SERMONS \in SeqsUpTo(ConcurrentDocs, MaxDocs)
    /\ pc = [t \in Threads |-> "idle"]
    /\ req = [t \in Threads |-> NoRequest]
    /\ resp = [t \in Threads |-> NoResponse]
    /\ query_words = [t \in Threads |-> <<>>]
    /\ scores = [t \in Threads |-> <<>>]
    /\ scanned = [t \in Threads |-> FALSE]
    /\ earlier = <<>>

\* a request arrives and is given to thread t
Arrive(t) ==
    /\ pc[t] = "idle"
    /\ \E e \in Endpoints : \E a \in ArgsFor(e, ConcurrentQueries, ConcurrentMax) :
           req' = [req EXCEPT ![t] = [endpoint |-> e, args |-> a]]
    /\ pc' = [pc EXCEPT ![t] = "handling"]
    /\ resp' = [resp EXCEPT ![t] = NoResponse]
    /\ query_words' = [query_words EXCEPT ![t] = <<>>]
    /\ scores' = [scores EXCEPT ![t] = <<>>]
    /\ scanned' = [scanned EXCEPT ![t] = FALSE]
    /\ UNCHANGED <<SERMONS, earlier>>

\* api_search / api_search_v2 up to the call of the search: the arguments
\* are read, and the search starts with an empty result list unless the
\* handler ends here
Enter(t) ==
    /\ pc[t] = "handling"
    /\ req[t].endpoint \in {"search", "search_v2"}
    /\ IF SearchCalled(req[t].args)
       THEN /\ pc' = [pc EXCEPT ![t] = "scanning"]
            /\ resp' = [resp EXCEPT ![t] = [status |-> 0, body |-> [results |-> <<>>]]]
            /\ query_words' = [query_words EXCEPT ![t] =
                                  IF req[t].endpoint = "search"
                                  THEN Split(Lower(req[t].args.q))
                                  ELSE QueryWordsV2(req[t].args.q)]
            /\ scanned' = [scanned EXCEPT ![t] = TRUE]
       ELSE /\ pc' = [pc EXCEPT ![t] = "idle"]
            /\ resp' = [resp EXCEPT ![t] =
                           IF MaxResults(req[t].args) = <<>> THEN ServerError
                           ELSE BadRequest]
            /\ UNCHANGED <<query_words, scanned>>
    /\ UNCHANGED <<SERMONS, req, scores, earlier>>

\* one iteration of `for sermon in SERMONS`: the next sermon is scored and
\* its record, if it gets one, is appended
ScanNext(t) ==
    /\ pc[t] = "scanning"
    /\ Len(scores[t]) < Len(SERMONS)
    /\ LET i == Len(scores[t]) + 1
           query == req[t].args.q
       IN  /\ scores' = [scores EXCEPT ![t] =
                            Append(@, IF req[t].endpoint = "search"
                                      THEN Score(SERMONS[i], query)
                                      ELSE ScoreV2(SERMONS[i], query))]
           /\ resp' = [resp EXCEPT ![t].body.results =
                          @ \o (IF req[t].endpoint = "search"
                                THEN ScanSermons(SubSeq(SERMONS, 1, i), query, i)
                                ELSE ScanSermonsV2(SubSeq(SERMONS, 1, i), query, i))]
    /\ UNCHANGED <<SERMONS, pc, req, query_words, scanned, earlier>>

\* a handler whose sort reorders the shared corpus in place
ReturnReordering(t) ==
    /\ pc[t] = "scanning"
    /\ Len(scores[t]) >= Len(SERMONS)
    /\ resp' = [resp EXCEPT ![t] =
                   [status |-> 200,
                    body |-> [query |-> req[t].args.q,
                              total_sermons |-> Len(SERMONS),
                              results_count |-> Len(resp[t].body.results),
                              results |-> resp[t].body.results]]]
    /\ SERMONS' = [i \in 1..Len(SERMONS) |-> SERMONS[Len(SERMONS) + 1 - i]]
    /\ pc' = [pc EXCEPT ![t] = "idle"]
    /\ UNCHANGED <<req, query_words, scores, scanned, earlier>>

\* the loop is over: the records are sorted and truncated, and the handler
\* answers with the counts (and the summary, for /api/search/v2)
Return(t) ==
    /\ pc[t] = "scanning"
    /\ Len(scores[t]) >= Len(SERMONS)
    /\ LET results == Truncate(SortByScore(resp[t].body.results),
                               MaxResults(req[t].args)[1])
           query == req[t].args.q
       IN  resp' = [resp EXCEPT ![t] =
                      IF req[t].endpoint = "search"
                      THEN [status |-> 200,
                            body |-> [query |-> query,
                                      total_sermons |-> Len(SERMONS),
                                      results_count |-> Len(results),
                                      results |-> results]]
                      ELSE [status |-> 200,
                            body |-> [query |-> query,
                                      total_sermons |-> Len(SERMONS),
                                      results_count |-> Len(results),
                                      summary |-> generate_summary_answer(query, results),
                                      results |-> results]]]
    /\ pc' = [pc EXCEPT ![t] = "idle"]
    /\ UNCHANGED <<SERMONS, req, query_words, scores, scanned, earlier>>

\* api_stats of either file
Stats(t) ==
    /\ pc[t] = "handling"
    /\ req[t].endpoint \in {"stats", "stats_v2"}
    /\ resp' = [resp EXCEPT ![t] = IF req[t].endpoint = "stats" THEN api_stats(SERMONS)
                                   ELSE api_stats_v2(SERMONS)]
    /\ pc' = [pc EXCEPT ![t] = "idle"]
    /\ UNCHANGED <<SERMONS, req, query_words, scores, scanned, earlier>>

NextConcurrent ==
    \E t \in Threads : Arrive(t) \/ Enter(t) \/ ScanNext(t) \/ Return(t) \/ Stats(t)

SpecConcurrent == InitConcurrent /\ [][NextConcurrent]_vars

\* what request r gets when it is served alone on corpus S
ServedAlone(S, r) ==
    CASE r.endpoint = "search" -> api_search(S, r.args)
      [] r.endpoint = "search_v2" -> api_search_v2(S, r.args)
      [] r.endpoint = "stats" -> api_stats(S)
      [] r.endpoint = "stats_v2" -> api_stats_v2(S)

\* C11: under every interleaving of search, summary and stats requests no
\* step changes the corpus, and a request that is answered gets the response
\* it would get alone on that corpus: all requests observe the same corpus
C11_CorpusImmutable ==
    [][/\ SERMONS' = SERMONS
       /\ \A t \in Threads :
             (pc[t] # "idle" /\ pc'[t] = "idle")
                 => resp'[t] = ServedAlone(SERMONS', req'[t])]_vars

\* both threads are inside the search loop, each one sermon into a corpus of
\* two, one in search_sermons and one in search_sermons_v2
C11_Witness ==
    /\ Len(SERMONS) = 2
    /\ pc = [t \in Threads |-> "scanning"]
    /\ \A t \in Threads : Len(scores[t]) = 1
    /\ {req[t].endpoint : t \in Threads} = {"search", "search_v2"}

(***************************************************************************)
(* Documents with null fields                                              *)
(***************************************************************************)

\* a document whose title is null
NullTitleDoc ==
    [title |-> PyNone, transcript |-> "grace grace grace is a gift of grace",
     date |-> "2020-01-05", url |-> "https://youtu.be/a", word_count |-> 8]

\* a document whose transcript is null
NullTranscriptDoc == [title |-> "Grace", transcript |-> PyNone, word_count |-> 0]

\* a document whose date, url and word count are null
NullMetaDoc ==
    [title |-> "Grace", transcript |-> "grace grace grace is a gift of grace",
     date |-> PyNone, url |-> PyNone, word_count |-> PyNoneCount]

FaultDocs == {GraceDoc, BareDoc, NullTitleDoc, NullTranscriptDoc, NullMetaDoc}

\* the corpus file may hold documents with null fields
InitFaults == SERMONS \in SeqsUpTo(FaultDocs, MaxDocs) /\ Fresh

SpecFaults == InitFaults /\ [][Next]_vars

\* the value a field takes when it is absent
FieldDefault(k) == IF k = "word_count" THEN 0 ELSE ""

\* the corpus with every null field replaced by the value of an absent one
Defaulted(S) ==
    [i \in 1..Len(S) |->
        [k \in DOMAIN S[i] |->
            IF S[i][k] = (IF k = "word_count" THEN PyNoneCount ELSE PyNone)
            THEN FieldDefault(k) ELSE S[i][k]]]

\* C12: a search over documents whose title, transcript, date, url or
\* word_count is absent or null completes without raising and answers as it
\* would with the field an empty string (word_count: zero)
C12_FieldFaultsDefaulted ==
    (/\ pc = "idle"
     /\ req.endpoint \in {"search", "search_v2"}
     /\ SearchCalled(req.args))
        => /\ resp.status = 200
           /\ resp = IF req.endpoint = "search"
                     THEN api_search(Defaulted(SERMONS), req.args)
                     ELSE api_search_v2(Defaulted(SERMONS), req.args)

(***************************************************************************)
(* Variants of one query: a search is compared with an earlier one         *)
(***************************************************************************)

\* 62 characters, one sentence without a full stop
ShortDoc ==
    [title |-> "Freely Given",
     transcript |-> "The grace of the Lord is a gift given freely to every believer",
     date |-> "2022-02-06", word_count |-> 13]

VariantDocs == {GraceDoc, LongDoc, ShortDoc}

\* one word, the word capitalised with a question mark, the word repeated,
\* and two words in either order
VariantQueries == {"grace", "Grace?", "grace grace", "given freely", "freely given"}

VariantMax == {"1"}

InitVariants == SERMONS \in SeqsUpTo(VariantDocs, MaxDocs) /\ Fresh

ReceiveVariants ==
    /\ pc = "idle"
    /\ \E e \in Endpoints : \E a \in ArgsFor(e, VariantQueries, VariantMax) :
           req' = [endpoint |-> e, args |-> a]
    /\ pc' = "handling"
    /\ resp' = NoResponse
    /\ query_words' = <<>>
    /\ scores' = <<>>
    /\ scanned' = FALSE
    /\ UNCHANGED <<SERMONS, earlier>>

\* the search just answered is remembered with its term list and its scores,
\* or the call remembered before is kept
Recall(call) ==
    earlier' \in {Aged} \cup (IF call.resp.status = 200
                              THEN {<<[req |-> call.req, resp |-> call.resp,
                                       query_words |-> call.query_words,
                                       scores |-> call.scores, later |-> 0]>>}
                              ELSE {})

VariantSearch ==
    SearchStep /\ Recall([req |-> req, resp |-> resp',
                          query_words |-> query_words', scores |-> scores'])

VariantSearchV2 ==
    SearchV2Step /\ Recall([req |-> req, resp |-> resp',
                            query_words |-> query_words', scores |-> scores'])

NextVariants == ReceiveVariants \/ VariantSearch \/ VariantSearchV2 \/ RepeatStats

SpecVariants == InitVariants /\ [][NextVariants]_vars

\* a search has been answered after a remembered search of the same endpoint
Compared ==
    /\ pc = "idle"
    /\ earlier # <<>>
    /\ req.endpoint = earlier[1].req.endpoint
    /\ resp.status = 200

Punctuation == {".", ",", "!", "?", ";", ":"}

RECURSIVE Unpunctuated(_, _)
\* q from position i on without its punctuation characters
Unpunctuated(q, i) ==
    IF i >= Len(q) THEN ""
    ELSE (IF At(q, i) \in Punctuation THEN "" ELSE At(q, i)) \o Unpunctuated(q, i + 1)

\* C13: two queries that differ only in letter case or in punctuation, sent
\* to the same endpoint with the same max, get the same term list and the
\* same results
C13_CaseAndPunctuationNormalised ==
    (/\ Compared
     /\ Get(req.args, "max", "10") = Get(earlier[1].req.args, "max", "10")
     /\ Lower(Unpunctuated(req.args.q, 0)) = Lower(Unpunctuated(earlier[1].req.args.q, 0)))
        => /\ query_words = earlier[1].query_words
           /\ resp.body.results = earlier[1].resp.body.results

\* the elements of a sequence
Range(seq) == {seq[n] : n \in 1..Len(seq)}

\* C18: two queries with the same set of terms, one repeating or reordering
\* the words of the other, give every sermon the same score
C18_ScoreDependsOnTermSet ==
    (Compared /\ Range(query_words) = Range(earlier[1].query_words))
        => scores = earlier[1].scores

HasPassages(result) == result.passages # <<>>

\* text is made of consecutive characters of passage, with or without the
\* ellipsis after them
TakenFrom(text, passage) ==
    \/ Contains(passage, text)
    \/ /\ Len(text) >= 3
       /\ Slice(text, Len(text) - 3, Len(text)) = "..."
       /\ Contains(passage, Prefix(text, Len(text) - 3))

\* C14: the summary of a v2 search has one entry for each of the first five
\* results that has a passage, in order; the entry carries that result's
\* title and a text taken from that result's first passage
C14_SummaryNeverFabricates ==
    (Searched /\ req.endpoint = "search_v2" /\ resp.body.summary # <<>>)
        => LET top == SelectSeq(Truncate(resp.body.results, 5), HasPassages)
               top_teachings == resp.body.summary[1].top_teachings
           IN  /\ Len(top_teachings) = Len(top)
               /\ \A n \in 1..Len(top) :
                     /\ top_teachings[n].title = top[n].title
                     /\ TakenFrom(top_teachings[n].text, top[n].passages[1])

(***************************************************************************)
(* Which sermons are returned                                              *)
(***************************************************************************)

\* the corpus positions of the returned records
Returned == {resp.body.results[n].doc : n \in 1..Len(resp.body.results)}

\* the sermons the search scored above 0
Scoring == {i \in 1..Len(SERMONS) : scores[i] > 0}

\* C15: when max is at least the number of sermons that score
\* above 0, the returned records are exactly those sermons, each once
C15_PositiveScoreReturned ==
    (Searched /\ Requested >= Cardinality(Scoring))
        => /\ Returned = Scoring
           /\ Len(resp.body.results) = Cardinality(Scoring)

\* the sermons whose transcript has a 4-character term of the query inside
\* a sentence of at least 50 characters
HoldingTerm ==
    {i \in 1..Len(SERMONS) :
        \E n \in 1..Len(query_words) :
            /\ Len(query_words[n]) = 4
            /\ LET sentences == Sentences(Get(SERMONS[i], "transcript", ""))
               IN  \E k \in 1..Len(sentences) :
                      /\ Len(sentences[k]) >= 50
                      /\ Contains(Lower(sentences[k]), query_words[n])}

\* C16: in search_sermons_v2, when the query has no token of 5 or more
\* characters, every sermon holding a 4-character term inside a sentence of
\* at least 50 characters is returned with at least one passage (max being
\* at least the number of such sermons)
C16_FallbackTermsFindable ==
    (/\ Searched
     /\ req.endpoint = "search_v2"
     /\ \A n \in 1..Len(RawTokens) : Len(RawTokens[n]) < 5
     /\ Requested >= Cardinality(HoldingTerm))
        => \A i \in HoldingTerm :
              \E n \in 1..Len(resp.body.results) :
                  /\ resp.body.results[n].doc = i
                  /\ resp.body.results[n].passages # <<>>

\* no term of the query occurs in the transcript
Termless(transcript) ==
    \A n \in 1..Len(query_words) : ~Contains(Lower(transcript), query_words[n])

\* C17: in search_sermons, find_best_excerpt returns the empty excerpt for a
\* transcript in which no query term occurs, and no returned record has an
\* empty excerpt
C17_EmptyExcerptSkipped ==
    (Searched /\ req.endpoint = "search")
        => /\ \A i \in 1..Len(SERMONS) :
                 Termless(Get(SERMONS[i], "transcript", ""))
                     => find_best_excerpt(Get(SERMONS[i], "transcript", ""),
                                          query_words, 300) = ""
           /\ \A n \in 1..Len(resp.body.results) : resp.body.results[n].excerpt # ""

(***************************************************************************)
(* The parts of a score                                                    *)
(***************************************************************************)

\* what is left of sermon i's score without its title bonus and its
\* frequency bonus, in half points
PhraseShare(i) ==
    LET title_lower == Lower(Get(SERMONS[i], "title", ""))
        transcript_lower == Lower(Get(SERMONS[i], "transcript", ""))
    IN  IF req.endpoint = "search"
        THEN scores[i] - 10 * ScoreUnit * TitleMatches(query_words, title_lower, 1)
                       - FrequencySum(query_words, transcript_lower, 1)
        ELSE scores[i] - 30 * ScoreUnit * TitleMatches(query_words, title_lower, 1)
                       - FrequencySumV2(query_words, transcript_lower, 1)

\* the query has two terms or more and the first two, joined by a space,
\* occur in the lower-cased transcript of sermon i
FirstTwoOccur(i) ==
    /\ Len(query_words) >= 2
    /\ Contains(Lower(Get(SERMONS[i], "transcript", "")),
                query_words[1] \o " " \o query_words[2])

\* C19: the phrase bonus (5 points in search_sermons, 20 in
\* search_sermons_v2) is part of a sermon's score exactly when the query has
\* at least two terms and the first two joined by a space occur in the
\* transcript; the score of a one-term query is title bonus plus frequency
\* bonus
C19_PhraseBonus ==
    Searched =>
        \A i \in 1..Len(SERMONS) :
            PhraseShare(i) = IF FirstTwoOccur(i)
                             THEN (IF req.endpoint = "search" THEN 5 ELSE 20) * ScoreUnit
                             ELSE 0

\* C20: a token of fewer than 4 characters adds nothing to a score: a query
\* whose tokens all have fewer than 4 characters gives every sermon the
\* score 0 and returns no results
C20_ShortTokensDropped ==
    (Searched /\ \A n \in 1..Len(RawTokens) : Len(RawTokens[n]) < 4)
        => /\ \A i \in 1..Len(SERMONS) : scores[i] = 0
           /\ resp.body.results = <<>>

====
